---- MODULE Spec2Model ----
(***************************************************************************)
(* A model of the bird catalogue server (src/server.js): the in-memory     *)
(* record list `birds` mirrored to data.json, the image directory, the     *)
(* per-IP operation limiter (ip_operations.json) and the operation log     *)
(* (operation_log.json), with the request handlers cut at their awaits.    *)
(*                                                                         *)
(* Granularity.  Node runs one continuation at a time.  A step of a        *)
(* request is: the file operation it was awaiting takes effect, and its    *)
(* code then runs up to the next awaited file operation.  The first step   *)
(* of a request also draws the request's input.                            *)
(*                                                                         *)
(* Failures.  The input of a request names, in `faults`, the file          *)
(* operations that fail while it is handled (a read that throws or yields  *)
(* text JSON.parse rejects; a write that throws before it changes the      *)
(* file).  Spec, SpecSeq and SpecList draw requests without faults;        *)
(* SpecFail draws requests with them.                                      *)
(*                                                                         *)
(* Time.  TLC's integers are 32 bits wide and 30 days of milliseconds do   *)
(* not fit, so the clock counts seconds: the model covers the runs whose   *)
(* clock readings fall on whole seconds.  Two readings are equal exactly   *)
(* when they are the same millisecond.                                     *)
(***************************************************************************)
EXTENDS Integers, Sequences, FiniteSets, TLC

VARIABLES
    now,        \* the wall clock (Date.now()), in seconds
    birds,      \* the in-memory list `birds`
    dataFile,   \* the content of data.json
    images,     \* the file names in public/images
    ipFile,     \* the content of ip_operations.json
    logFile,    \* the content of operation_log.json
    req,        \* the requests: input, position in the handler chain, locals
    preload,    \* how many operations the limiter had admitted before Init
    ticks,      \* how many times the clock has been seen to advance
    listResp,   \* the last answer of GET /api/birds (list specification)
    apiCache,   \* service worker: the entries of the cache API_CACHE_NAME
    origin,     \* service worker: the version of what the server answers
    gets        \* service worker: the fetch events of GETs under /api

vars == <<now, birds, dataFile, images, ipFile, logFile, req, preload, ticks,
          listResp, apiCache, origin, gets>>

----------------------------------------------------------------------------
\* Program constants.

MaxOps == 8
LogDays == 30
pageSize == 48
MaxNameLen == 10
MaxImageBytes == 1048576
MaxUploadBytes == 5 * 1024 * 1024
DayMs == 24 * 60 * 60

\* Bounds of the model.

MaxReq == 2
MaxTicks == 1
MaxBirds == 97
MaxPageLen == 2

----------------------------------------------------------------------------
\* Values.

Null == <<>>

\* The instant of Init.  The operations admitted before Init were made one
\* per minute, the last one a minute before Init.
T0 == 20000 * DayMs

preTime(i, n) == T0 - 60 * (n - i + 1)

\* The instants the clock may jump to: a second after Init, and the last
\* instant before and the first instant at which the newest earlier operation
\* is 24 hours old, and 30 days old.
Instants ==
    { T0, T0 + 1,
      T0 - 60 + DayMs - 1, T0 - 60 + DayMs,
      T0 - 60 + LogDays * DayMs - 1, T0 - 60 + LogDays * DayMs }

IpA == "10.0.0.1"
IpB == "10.0.0.2"

\* Date.prototype.toISOString: the UTC calendar day and the time of day.
toISOString(t) == <<t \div DayMs, t % DayMs>>

\* new Date(isoString).getTime()
parseDate(s) == s[1] * DayMs + s[2]

\* A serialisation that loses the image names (C10 must tell it from
\* stringifyBirds).
stringifyBirdsNoImage(bs) ==
    [i \in 1..Len(bs) |-> <<bs[i].id, bs[i].name, Null>>]

\* JSON.stringify(birds, null, 2): each object as its members in order.
stringifyBirds(bs) ==
    [i \in 1..Len(bs) |-> <<bs[i].id, bs[i].name, bs[i].imageUrl>>]

\* JSON.parse(data) of a records file.
parseBirds(text) ==
    [i \in 1..Len(text) |->
        [id |-> text[i][1], name |-> text[i][2], imageUrl |-> text[i][3]]]

\* birds.findIndex(bird => bird.id === id), 1-based; 0 stands for -1.
findIndex(bs, id) ==
    IF \E i \in 1..Len(bs) : bs[i].id = id
    THEN CHOOSE i \in 1..Len(bs) :
            /\ bs[i].id = id
            /\ \A j \in 1..(i - 1) : bs[j].id # id
    ELSE 0

\* An empty slot of the array (what an assignment past the end leaves behind).
Hole == [id |-> 0 - 1, name |-> <<>>, imageUrl |-> Null]

IsHole(b) == b.id < 0

\* Whether the callback of find/findIndex reads `.id` of an empty slot before
\* it finds a match: a TypeError, caught by the handler's try/catch.
lookupThrows(bs, id) ==
    \E i \in 1..Len(bs) :
        /\ IsHole(bs[i])
        /\ \A j \in 1..(i - 1) : bs[j].id # id

\* birds.splice(index, 1), 1-based: nothing is removed past the end.
splice(bs, i) ==
    IF i > Len(bs)
    THEN bs
    ELSE [j \in 1..(Len(bs) - 1) |-> IF j < i THEN bs[j] ELSE bs[j + 1]]

\* birds[index] = bird, 1-based: an index past the end lengthens the array.
assignAt(bs, i, b) ==
    [j \in 1..(IF i > Len(bs) THEN i ELSE Len(bs)) |->
        IF j = i THEN b ELSE IF j <= Len(bs) THEN bs[j] ELSE Hole]

\* birds.unshift(bird)
unshift(bs, b) == <<b>> \o bs

----------------------------------------------------------------------------
\* Requests.

NoFile == [present |-> FALSE, size |-> 0]
SmallFile == [present |-> TRUE, size |-> MaxImageBytes]
BigFile == [present |-> TRUE, size |-> MaxImageBytes + 1]
HugeFile == [present |-> TRUE, size |-> MaxUploadBytes + 1]

ShortName == <<"E", "g", "r", "e", "t">>
OtherName == <<"h", "e", "r", "o", "n">>
LongName == <<"n", "i", "g", "h", "t", "-", "h", "e", "r", "o", "n">>

\* multer's filename callback: a fresh uuid for each upload.
uploadName(r) == <<"uuid", r>>

\* req.path
pathOf(in) ==
    IF in.method = "POST" THEN <<"/api/birds">> ELSE <<"/api/birds", in.id>>

\* What Express's default error handler sends for an error passed to next():
\* status 500 and an HTML page, not a body of the route's handler.
ErrorPage == [id |-> 0 - 2, name |-> <<"E", "r", "r", "o", "r">>, imageUrl |-> Null]

\* Values of the x-operation-desc header: "add%20A", and "50%", which is not a
\* URI-encoded string.  No header is Null.
GoodDesc == <<"a", "d", "d", "%", "2", "0", "A">>
BadDesc == <<"5", "0", "%">>

NoInput == [ip |-> IpA, method |-> "NONE", id |-> 0, name |-> <<>>, file |-> NoFile,
            desc |-> Null, faults |-> {}]

\* The file operations that may fail during a request.
Faults == {"readIp", "writeIp", "readLog", "writeLog", "writeData"}

\* The file operation `op` fails while the request of input `in` is handled.
fails(in, op) == op \in in.faults

NewReq ==
    [ pc |-> "new", in |-> NoInput,
      at |-> 0, ops |-> <<>>, limit |-> 0, remaining |-> 0, resetTime |-> 0,
      logAt |-> 0, logEntry |-> <<>>, logs |-> <<>>,
      file |-> Null, birdIndex |-> 0, bird |-> Hole, snapshot |-> <<>>,
      status |-> 0, body |-> Hole ]

\* The record the limiter stores for an admitted request.
opEntry(in, t) ==
    [ip |-> in.ip, timestamp |-> toISOString(t), method |-> in.method,
     path |-> pathOf(in)]

\* The hexadecimal digits (the strings of the model write them in upper case).
HexChars == <<"0", "1", "2", "3", "4", "5", "6", "7", "8", "9",
              "A", "B", "C", "D", "E", "F">>

isHex(c) == \E d \in 1..Len(HexChars) : HexChars[d] = c

hexValue(c) == (CHOOSE d \in 1..Len(HexChars) : HexChars[d] = c) - 1

\* The character of an ASCII code (the codes the strings of the model escape).
asciiChar(n) ==
    CASE n = 32 -> " "
      [] n = 65 -> "A"
      [] n = 66 -> "B"
      [] OTHER -> "?"

\* decodeURIComponent(string): every %XX escape is replaced by the character
\* it encodes; a "%" that is not followed by two hexadecimal digits, or an
\* escape of a byte over 0x7F that starts no complete UTF-8 sequence (every
\* such escape, in the strings of the model), throws a URIError.
RECURSIVE decodeURIComponent(_)
decodeURIComponent(s) ==
    IF s = <<>>
    THEN [throws |-> FALSE, value |-> <<>>]
    ELSE IF Head(s) # "%"
    THEN LET rest == decodeURIComponent(Tail(s))
         IN  [throws |-> rest.throws, value |-> <<Head(s)>> \o rest.value]
    ELSE IF Len(s) < 3 \/ ~isHex(s[2]) \/ ~isHex(s[3])
    THEN [throws |-> TRUE, value |-> <<>>]
    ELSE IF hexValue(s[2]) >= 8
    THEN [throws |-> TRUE, value |-> <<>>]
    ELSE LET rest == decodeURIComponent(SubSeq(s, 4, Len(s)))
         IN  [throws |-> rest.throws,
              value |-> <<asciiChar(hexValue(s[2]) * 16 + hexValue(s[3]))>>
                            \o rest.value]

\* req.headers['x-operation-desc'] ? decodeURIComponent(...) : `${method} ${path}`
operationDesc(in) ==
    IF in.desc # Null
    THEN decodeURIComponent(in.desc).value
    ELSE <<in.method, pathOf(in)>>

\* The entry logOperation appends.
logEntryOf(in, t) ==
    [timestamp |-> toISOString(t), ip |-> in.ip,
     operation |-> operationDesc(in), method |-> in.method,
     path |-> pathOf(in), userAgent |-> "ua"]

----------------------------------------------------------------------------
\* The limiter (operationRateLimiter).

\* A count over the operations of every IP (C20 must tell it from
\* recentOperations).
recentOperationsAnyIp(operations, clientIp, twentyFourHoursAgo) ==
    LET Recent(op) == parseDate(op.timestamp) > twentyFourHoursAgo
    IN  SelectSeq(operations, Recent)

\* operations.filter(op => new Date(op.timestamp) > twentyFourHoursAgo
\*                         && op.ip === clientIp)
recentOperations(operations, clientIp, twentyFourHoursAgo) ==
    LET Recent(op) ==
            /\ parseDate(op.timestamp) > twentyFourHoursAgo
            /\ op.ip = clientIp
    IN  SelectSeq(operations, Recent)

\* A cleaning that also drops the operation just pushed (C25 must tell it
\* from cleanedOperations).
cleanedOperationsUnrecorded(operations, twentyFourHoursAgo) ==
    LET Fresh(op) == parseDate(op.timestamp) > twentyFourHoursAgo
    IN  SelectSeq(SubSeq(operations, 1, Len(operations) - 1), Fresh)

\* operations.filter(op => new Date(op.timestamp) > twentyFourHoursAgo)
cleanedOperations(operations, twentyFourHoursAgo) ==
    LET Fresh(op) == parseDate(op.timestamp) > twentyFourHoursAgo
    IN  SelectSeq(operations, Fresh)

\* The comparison off by one (C1 must tell it from limitReached).
limitReachedLate(n) == n > MaxOps

\* recentOperations.length >= 8
limitReached(n) == n >= MaxOps

\* Math.ceil(ms / 1000), of a time span of the model's clock
ceilSeconds(span) == (span * 1000 + 999) \div 1000

\* A limiter that records the attempt it rejects (C15 must tell it from
\* operationRateLimiter).
operationRateLimiterRecording(r, in, solo) ==
    /\ req[r].pc = "new"
    /\ \A q \in 1..(r - 1) : req[q].pc # "new"
    /\ solo => \A q \in DOMAIN req : req[q].pc \in {"new", "done", "hung"}
    /\ limitReached(Len(recentOperations(ipFile, in.ip, now - DayMs)))
    /\ req' = [req EXCEPT ![r] =
            [NewReq EXCEPT !.pc = "done", !.in = in, !.at = now, !.status = 429]]
    /\ ipFile' = cleanedOperations(Append(ipFile, opEntry(in, now)), now - DayMs)
    /\ UNCHANGED <<now, birds, dataFile, images, logFile, preload, ticks, listResp,
                   apiCache, origin, gets>>

\* A read whose failure leaves the history as it is (C28 must tell it from
\* readIpOperations).
readIpOperationsUnfailing(in) == ipFile

\* readIpOperations(): the parsed file, and [] when the read or the parse
\* throws.
readIpOperations(in) == IF fails(in, "readIp") THEN <<>> ELSE ipFile

\* A request arrives; readIpOperations() has completed and the limiter runs
\* up to its answer (429) or up to the call of writeIpOperations.  With `solo`
\* the request is taken only when no other one is being handled.
operationRateLimiter(r, in, solo) ==
    /\ req[r].pc = "new"
    /\ \A q \in 1..(r - 1) : req[q].pc # "new"
    /\ solo => \A q \in DOMAIN req : req[q].pc \in {"new", "done", "hung"}
    /\ LET operations == readIpOperations(in)
           twentyFourHoursAgo == now - DayMs
           recent == recentOperations(operations, in.ip, twentyFourHoursAgo)
       IN  IF limitReached(Len(recent))
           THEN req' = [req EXCEPT ![r] =
                    [NewReq EXCEPT !.pc = "done", !.in = in, !.at = now,
                        !.status = 429, !.remaining = 0,
                        !.resetTime =
                            ceilSeconds(twentyFourHoursAgo + DayMs - now)]]
           ELSE req' = [req EXCEPT ![r] =
                    [NewReq EXCEPT !.pc = "limWrite", !.in = in, !.at = now,
                        !.ops = cleanedOperations(
                                    Append(operations, opEntry(in, now)),
                                    twentyFourHoursAgo),
                        !.limit = MaxOps,
                        !.remaining = MaxOps - Len(recent) - 1]]
    /\ UNCHANGED <<now, birds, dataFile, images, ipFile, logFile, preload, ticks, listResp,
                   apiCache, origin, gets>>

\* writeIpOperations(cleanedOperations) completes; next() enters logOperation,
\* which builds its entry and calls readOperationLog.  When decodeURIComponent
\* throws, the promise of the async middleware is rejected and next() is never
\* called: Express 4 ignores the promise, so the request is never answered
\* (pc "hung": the connection stays open, or the process exits on the
\* unhandled rejection); Express 5 passes the error to the default handler.
writeIpOperations(r) ==
    /\ req[r].pc = "limWrite"
    /\ ipFile' = IF fails(req[r].in, "writeIp") THEN ipFile ELSE req[r].ops
    /\ IF req[r].in.desc # Null /\ decodeURIComponent(req[r].in.desc).throws
       THEN \/ req' = [req EXCEPT ![r] = [@ EXCEPT !.pc = "hung", !.ops = <<>>]]
            \/ req' = [req EXCEPT ![r] = [@ EXCEPT !.pc = "done", !.ops = <<>>,
                                             !.status = 500, !.body = ErrorPage]]
       ELSE req' = [req EXCEPT ![r] =
                [@ EXCEPT !.pc = "logRead", !.ops = <<>>, !.logAt = now,
                    !.logEntry = logEntryOf(req[r].in, now)]]
    /\ UNCHANGED <<now, birds, dataFile, images, logFile, preload, ticks, listResp,
                   apiCache, origin, gets>>

----------------------------------------------------------------------------
\* The operation log (logOperation).

\* thirtyDaysAgo.setDate(thirtyDaysAgo.getDate() - 30), on a clock without
\* daylight-saving shifts.
thirtyDaysAgo(t) == t - LogDays * DayMs

\* No pruning at all (C9 must tell it from recentLogs).
recentLogsUnpruned(logs, since) == logs

\* logs.filter(log => new Date(log.timestamp) > thirtyDaysAgo)
recentLogs(logs, since) ==
    LET Kept(log) == parseDate(log.timestamp) > since
    IN  SelectSeq(logs, Kept)

\* readOperationLog(): the parsed file, and [] when the read or the parse
\* throws.
readOperationLog(in) == IF fails(in, "readLog") THEN <<>> ELSE logFile

\* readOperationLog() completes: the entry is pushed, the log pruned, and
\* writeOperationLog called.
logOperation(r) ==
    /\ req[r].pc = "logRead"
    /\ req' = [req EXCEPT ![r] =
            [@ EXCEPT !.pc = "logWrite", !.logEntry = <<>>,
                !.logs = recentLogs(Append(readOperationLog(req[r].in),
                                           req[r].logEntry),
                                    thirtyDaysAgo(now))]]
    /\ UNCHANGED <<now, birds, dataFile, images, ipFile, logFile, preload, ticks, listResp,
                   apiCache, origin, gets>>

----------------------------------------------------------------------------
\* The record store (the handlers of /api/birds).

\* parseInt(string): an optional sign and the longest run of decimal digits
\* that follows it; NaN when there is none.  (The strings of the model hold
\* no white space and no "0x" prefix.)
DigitChars == <<"0", "1", "2", "3", "4", "5", "6", "7", "8", "9">>

isDigit(c) == \E d \in 1..Len(DigitChars) : DigitChars[d] = c

digitValue(c) == (CHOOSE d \in 1..Len(DigitChars) : DigitChars[d] = c) - 1

RECURSIVE digitsValue(_, _)
digitsValue(s, acc) ==
    IF s = <<>> \/ ~isDigit(Head(s))
    THEN acc
    ELSE digitsValue(Tail(s), acc * 10 + digitValue(Head(s)))

parseInt(s) ==
    LET signed == s # <<>> /\ Head(s) \in {"-", "+"}
        rest == IF signed THEN Tail(s) ELSE s
        magnitude == digitsValue(rest, 0)
    IN  IF rest = <<>> \/ ~isDigit(Head(rest))
        THEN [nan |-> TRUE, value |-> 0]
        ELSE [nan |-> FALSE,
              value |-> IF Head(s) = "-" THEN 0 - magnitude ELSE magnitude]

\* String(undefined), what parseInt sees when the query has no `page`.
Undefined == <<"undefined">>

\* parseInt(req.query.page) || 1
pageOf(query) ==
    LET n == parseInt(query)
    IN  IF n.nan \/ n.value = 0 THEN 1 ELSE n.value

\* String.prototype.toLowerCase, on the letters of the model
lowerChar(c) ==
    CASE c = "A" -> "a"
      [] c = "B" -> "b"
      [] OTHER -> c

toLowerCase(s) == [i \in 1..Len(s) |-> lowerChar(s[i])]

\* String.prototype.includes
includes(s, part) ==
    \E k \in 0..(Len(s) - Len(part)) : SubSeq(s, k + 1, k + Len(part)) = part

\* Array.prototype.slice(start, end) with 0-based bounds: a negative bound
\* counts from the end of the array.
slice(a, start, end) ==
    LET from == IF start < 0
                THEN (IF Len(a) + start < 0 THEN 0 ELSE Len(a) + start)
                ELSE (IF start > Len(a) THEN Len(a) ELSE start)
        to == IF end < 0
              THEN (IF Len(a) + end < 0 THEN 0 ELSE Len(a) + end)
              ELSE (IF end > Len(a) THEN Len(a) ELSE end)
    IN  SubSeq(a, from + 1, to)

\* birds.filter(bird => bird.name.toLowerCase().includes(search.toLowerCase()))
\* when the search string is not empty (filter skips empty slots).
filteredBirds(bs, search) ==
    LET Match(bird) ==
            /\ ~IsHole(bird)
            /\ includes(toLowerCase(bird.name), toLowerCase(search))
    IN  IF search # <<>> THEN SelectSeq(bs, Match) ELSE bs

\* The comparison off by one (C5 must tell it from hasMore).
hasMoreInclusive(endIndex, length) == endIndex <= length

\* hasMore = endIndex < filteredBirds.length
hasMore(endIndex, length) == endIndex < length

\* app.get('/api/birds'): the body of the answer.
listBirds(bs, pageQuery, search) ==
    LET page == pageOf(pageQuery)
        filtered == filteredBirds(bs, search)
        startIndex == (page - 1) * pageSize
        endIndex == startIndex + pageSize
    IN  [birds |-> slice(filtered, startIndex, endIndex),
         hasMore |-> hasMore(endIndex, Len(filtered))]

\* app.get('/api/birds/:id'): the status and the record sent.
getBird(bs, id) ==
    IF lookupThrows(bs, id)
    THEN [status |-> 500, bird |-> Hole]
    ELSE IF findIndex(bs, id) = 0
    THEN [status |-> 404, bird |-> Hole]
    ELSE [status |-> 200, bird |-> bs[findIndex(bs, id)]]

\* The validation of app.post: the name is required, at most 10 characters,
\* and an uploaded image at most 1 MiB.
postInvalid(name, file) ==
    \/ name = <<>>
    \/ Len(name) > MaxNameLen
    \/ file.present /\ file.size > MaxImageBytes

\* { id: Date.now(), name: name, imageUrl: req.file ? req.file.filename : null }
newBird(name, filename, t) == [id |-> t, name |-> name, imageUrl |-> filename]

\* An update that assigns the name even when none is supplied (C23 must
\* tell it from updatedBird).
updatedBirdRenaming(bird, name) == [bird EXCEPT !.name = name]

\* const updatedBird = { ...birds[birdIndex] }; if (name) updatedBird.name = name;
updatedBird(bird, name) ==
    IF name # <<>> THEN [bird EXCEPT !.name = name] ELSE bird

\* The body of app.delete up to its first await: fs.unlink when the record
\* has an image, saveData otherwise.
deleteBody(r) ==
    LET id == req[r].in.id
        birdIndex == findIndex(birds, id)
    IN  IF lookupThrows(birds, id)
        THEN /\ req' = [req EXCEPT ![r] = [@ EXCEPT !.pc = "done", !.logs = <<>>,
                                              !.status = 500]]
             /\ UNCHANGED birds
        ELSE IF birdIndex = 0
        THEN /\ req' = [req EXCEPT ![r] = [@ EXCEPT !.pc = "done", !.logs = <<>>,
                                              !.status = 404]]
             /\ UNCHANGED birds
        ELSE IF birds[birdIndex].imageUrl # Null
        THEN /\ req' = [req EXCEPT ![r] = [@ EXCEPT !.pc = "unlink", !.logs = <<>>,
                                              !.birdIndex = birdIndex,
                                              !.bird = birds[birdIndex]]]
             /\ UNCHANGED birds
        ELSE /\ birds' = splice(birds, birdIndex)
             /\ req' = [req EXCEPT ![r] = [@ EXCEPT !.pc = "save", !.logs = <<>>,
                                              !.birdIndex = birdIndex,
                                              !.bird = birds[birdIndex],
                                              !.snapshot = stringifyBirds(birds')]]

\* writeOperationLog(recentLogs) completes; next() enters multer for POST and
\* PUT, and the handler itself for DELETE.
writeOperationLog(r) ==
    /\ req[r].pc = "logWrite"
    /\ logFile' = IF fails(req[r].in, "writeLog") THEN logFile ELSE req[r].logs
    /\ IF req[r].in.method = "DELETE"
       THEN deleteBody(r)
       ELSE /\ req' = [req EXCEPT ![r] = [@ EXCEPT !.pc = "upload", !.logs = <<>>]]
            /\ UNCHANGED birds
    /\ UNCHANGED <<now, dataFile, images, ipFile, preload, ticks, listResp,
                   apiCache, origin, gets>>

\* The body of app.post, after multer has stored the file `filename`.
postBody(r, filename) ==
    LET in == req[r].in
        bird == newBird(in.name, filename, now)
    IN  IF postInvalid(in.name, in.file)
        THEN /\ req' = [req EXCEPT ![r] = [@ EXCEPT !.pc = "done", !.file = filename,
                                              !.status = 400]]
             /\ UNCHANGED birds
        ELSE /\ birds' = unshift(birds, bird)
             /\ req' = [req EXCEPT ![r] = [@ EXCEPT !.pc = "save", !.file = filename,
                                              !.body = bird,
                                              !.snapshot = stringifyBirds(birds')]]

\* The body of app.put, after multer has stored the file `filename`, up to
\* its first await: fs.unlink of the old image, or saveData.
putBody(r, filename) ==
    LET in == req[r].in
        birdIndex == findIndex(birds, in.id)
        updated == updatedBird(birds[birdIndex], in.name)
        withImage == IF in.file.present
                     THEN [updated EXCEPT !.imageUrl = filename]
                     ELSE updated
    IN  IF lookupThrows(birds, in.id)
        THEN /\ req' = [req EXCEPT ![r] = [@ EXCEPT !.pc = "done", !.file = filename,
                                              !.status = 500]]
             /\ UNCHANGED birds
        ELSE IF birdIndex = 0
        THEN /\ req' = [req EXCEPT ![r] = [@ EXCEPT !.pc = "done", !.file = filename,
                                              !.status = 404]]
             /\ UNCHANGED birds
        ELSE IF in.file.present /\ updated.imageUrl # Null
        THEN /\ req' = [req EXCEPT ![r] = [@ EXCEPT !.pc = "unlink", !.file = filename,
                                              !.birdIndex = birdIndex,
                                              !.bird = updated]]
             /\ UNCHANGED birds
        ELSE /\ birds' = assignAt(birds, birdIndex, withImage)
             /\ req' = [req EXCEPT ![r] = [@ EXCEPT !.pc = "save", !.file = filename,
                                              !.birdIndex = birdIndex,
                                              !.body = withImage,
                                              !.snapshot = stringifyBirds(birds')]]

\* upload.single('image') completes.  A file over the fileSize limit makes
\* multer drop it and call next(err): no error middleware is installed, so
\* the default handler answers.  Otherwise the uploaded file, if any, is in
\* the image directory under a fresh name, and the handler body runs.
upload(r) ==
    /\ req[r].pc = "upload"
    /\ IF req[r].in.file.present /\ req[r].in.file.size > MaxUploadBytes
       THEN /\ req' = [req EXCEPT ![r] = [@ EXCEPT !.pc = "done", !.status = 500,
                                             !.body = ErrorPage]]
            /\ UNCHANGED <<birds, images>>
       ELSE LET filename == IF req[r].in.file.present THEN uploadName(r) ELSE Null
            IN  /\ images' = IF req[r].in.file.present
                             THEN images \cup {filename}
                             ELSE images
                /\ IF req[r].in.method = "POST"
                   THEN postBody(r, filename)
                   ELSE putBody(r, filename)
    /\ UNCHANGED <<now, dataFile, ipFile, logFile, preload, ticks, listResp,
                   apiCache, origin, gets>>

\* fs.unlink of the record's image completes (a missing file is an error the
\* handler swallows); the handler writes the list and calls saveData.
unlink(r) ==
    /\ req[r].pc = "unlink"
    /\ images' = images \ {req[r].bird.imageUrl}
    /\ IF req[r].in.method = "DELETE"
       THEN /\ birds' = splice(birds, req[r].birdIndex)
            /\ req' = [req EXCEPT ![r] = [@ EXCEPT !.pc = "save",
                                             !.snapshot = stringifyBirds(birds')]]
       ELSE LET withImage == [req[r].bird EXCEPT !.imageUrl = req[r].file]
            IN  /\ birds' = assignAt(birds, req[r].birdIndex, withImage)
                /\ req' = [req EXCEPT ![r] = [@ EXCEPT !.pc = "save",
                                                 !.body = withImage,
                                                 !.snapshot = stringifyBirds(birds')]]
    /\ UNCHANGED <<now, dataFile, ipFile, logFile, preload, ticks, listResp,
                   apiCache, origin, gets>>

\* A handler that answers without waiting for the write of data.json (C16
\* must tell it from saveData).
saveDataUnawaited(r) ==
    /\ req[r].pc = "save"
    /\ req' = [req EXCEPT ![r] =
            [@ EXCEPT !.pc = "done", !.snapshot = <<>>,
                !.status = IF req[r].in.method = "POST" THEN 201 ELSE 200]]
    /\ UNCHANGED <<now, birds, dataFile, images, ipFile, logFile, preload, ticks, listResp,
                   apiCache, origin, gets>>

\* saveData with a rollback: when the write fails the list is reloaded from
\* the file (C21 must tell it from saveData).
saveDataRollingBack(r) ==
    /\ req[r].pc = "save"
    /\ dataFile' = IF fails(req[r].in, "writeData") THEN dataFile
                                                    ELSE req[r].snapshot
    /\ birds' = IF fails(req[r].in, "writeData") THEN parseBirds(dataFile)
                                                 ELSE birds
    /\ req' = [req EXCEPT ![r] =
            [@ EXCEPT !.pc = "done", !.snapshot = <<>>,
                !.status = IF req[r].in.method = "POST" THEN 201 ELSE 200]]
    /\ UNCHANGED <<now, images, ipFile, logFile, preload, ticks, listResp,
                   apiCache, origin, gets>>

\* fs.writeFile(DATA_FILE, ...) of saveData completes with the text that was
\* stringified when saveData was called, or throws into saveData's catch,
\* which logs the error; either way saveData returns and the response is sent.
saveData(r) ==
    /\ req[r].pc = "save"
    /\ dataFile' = IF fails(req[r].in, "writeData") THEN dataFile
                                                    ELSE req[r].snapshot
    /\ req' = [req EXCEPT ![r] =
            [@ EXCEPT !.pc = "done", !.snapshot = <<>>,
                !.status = IF req[r].in.method = "POST" THEN 201 ELSE 200]]
    /\ UNCHANGED <<now, birds, images, ipFile, logFile, preload, ticks, listResp,
                   apiCache, origin, gets>>

\* initData(), at a restart of the process while no request is being handled.
initData ==
    /\ \A q \in DOMAIN req : req[q].pc \in {"new", "done", "hung"}
    /\ birds' = parseBirds(dataFile)
    /\ UNCHANGED <<now, dataFile, images, ipFile, logFile, req, preload, ticks, listResp,
                   apiCache, origin, gets>>

\* Time passes.
Tick ==
    /\ ticks < MaxTicks
    /\ ticks' = ticks + 1
    /\ \E t \in Instants : t > now /\ now' = t
    /\ UNCHANGED <<birds, dataFile, images, ipFile, logFile, req, preload, listResp,
                   apiCache, origin, gets>>

----------------------------------------------------------------------------
\* The service worker (public/sw.js): GETs under /api.

\* How many fetch events, and how many changes of the server's answer.
MaxGets == 3
MaxVersion == 2

\* Two URLs under /api.
SwUrls == {"/api/birds", "/api/birds/count"}

\* A response: its status and the version of the server's answer it carries.
\* What cache.match resolves to when there is no entry (undefined), and what
\* a GET whose fetch rejected is answered (a network error).
NoResponse == [status |-> 0, version |-> 0]
NetworkError == [status |-> 0, version |-> 0 - 1]

\* The statuses the server answers a GET with.
SwStatuses == {200, 500}

\* response.ok
ok(response) == response.status >= 200 /\ response.status <= 299

\* The fetch event of a GET of `url`: fetchWithCache up to its return (an entry
\* is cached: it is the answer, and fetch(event.request) runs in the
\* background) or up to its await of fetch(event.request) (no entry).
fetchWithCache(url) ==
    /\ Len(gets) < MaxGets
    /\ LET cachedResponse == apiCache[url]
       IN  gets' = Append(gets,
                [url |-> url, pc |-> "fetch",
                 background |-> cachedResponse # NoResponse,
                 answer |-> cachedResponse, fetched |-> NoResponse])
    /\ UNCHANGED <<now, birds, dataFile, images, ipFile, logFile, req, preload, ticks,
                   listResp, apiCache, origin>>

\* fetch(event.request) of GET n resolves with a response of `status`.  In
\* the background it is put into the cache whatever its status; otherwise it
\* is the answer, and it is put into the cache when it is ok.
networkResponds(n, status) ==
    /\ gets[n].pc = "fetch"
    /\ LET networkResponse == [status |-> status, version |-> origin]
       IN  gets' = [gets EXCEPT ![n] =
                IF gets[n].background
                THEN [@ EXCEPT !.pc = "put", !.fetched = networkResponse]
                ELSE IF ok(networkResponse)
                THEN [@ EXCEPT !.pc = "put", !.fetched = networkResponse,
                               !.answer = networkResponse]
                ELSE [@ EXCEPT !.pc = "done", !.answer = networkResponse]]
    /\ UNCHANGED <<now, birds, dataFile, images, ipFile, logFile, req, preload, ticks,
                   listResp, apiCache, origin>>

\* fetch(event.request) of GET n rejects: ignored in the background, and
\* rethrown otherwise.
networkFails(n) ==
    /\ gets[n].pc = "fetch"
    /\ gets' = [gets EXCEPT ![n] =
            IF gets[n].background
            THEN [@ EXCEPT !.pc = "done"]
            ELSE [@ EXCEPT !.pc = "done", !.answer = NetworkError]]
    /\ UNCHANGED <<now, birds, dataFile, images, ipFile, logFile, req, preload, ticks,
                   listResp, apiCache, origin>>

\* A put that stores only ok responses, as the path without a cached entry
\* does (C24 must tell it from cachePut).
cachePutWhenOk(n) ==
    /\ gets[n].pc = "put"
    /\ apiCache' = IF ok(gets[n].fetched)
                   THEN [apiCache EXCEPT ![gets[n].url] = gets[n].fetched]
                   ELSE apiCache
    /\ gets' = [gets EXCEPT ![n] = [@ EXCEPT !.pc = "done"]]
    /\ UNCHANGED <<now, birds, dataFile, images, ipFile, logFile, req, preload, ticks,
                   listResp, origin>>

\* cache.put(event.request, response) of GET n completes.
cachePut(n) ==
    /\ gets[n].pc = "put"
    /\ apiCache' = [apiCache EXCEPT ![gets[n].url] = gets[n].fetched]
    /\ gets' = [gets EXCEPT ![n] = [@ EXCEPT !.pc = "done"]]
    /\ UNCHANGED <<now, birds, dataFile, images, ipFile, logFile, req, preload, ticks,
                   listResp, origin>>

\* The server's answer to the GETs changes.
originChanges ==
    /\ origin < MaxVersion
    /\ origin' = origin + 1
    /\ UNCHANGED <<now, birds, dataFile, images, ipFile, logFile, req, preload, ticks,
                   listResp, apiCache, gets>>

----------------------------------------------------------------------------
\* The specifications.

\* The earlier operations: DELETE requests of IpA for an id that no record
\* has (answered 404 after the limiter and the logger have recorded them).
UnknownId == T0 - DayMs

earlierInput == [ip |-> IpA, method |-> "DELETE", id |-> UnknownId,
                 name |-> <<>>, file |-> NoFile, desc |-> Null, faults |-> {}]

earlierOps(n) == [i \in 1..n |-> opEntry(earlierInput, preTime(i, n))]

earlierLogs(n) == [i \in 1..n |-> logEntryOf(earlierInput, preTime(i, n))]

\* The records data.json may hold when the process starts.
oldBird == [id |-> T0 - 2 * DayMs, name |-> ShortName, imageUrl |-> <<"uuid", 0>>]
olderBird == [id |-> T0 - 3 * DayMs, name |-> OtherName, imageUrl |-> Null]

InitStores == { <<oldBird, olderBird>> }

Init ==
    /\ now = T0
    /\ preload \in {0, MaxOps - 1, MaxOps}
    /\ ipFile = earlierOps(preload)
    /\ logFile = earlierLogs(preload)
    /\ dataFile \in {stringifyBirds(bs) : bs \in InitStores}
    /\ birds = parseBirds(dataFile)
    /\ images = {birds[i].imageUrl : i \in 1..Len(birds)} \ {Null}
    /\ req = [r \in 1..MaxReq |-> NewReq]
    /\ ticks = 0
    /\ listResp = <<>>
    /\ apiCache = [url \in SwUrls |-> NoResponse]
    /\ origin = 0
    /\ gets = <<>>

\* The ids of the records, and one no record has.
knownIds == {birds[i].id : i \in 1..Len(birds)} \ {Hole.id}

postInputs(ip, bodies) ==
    {[ip |-> ip, method |-> "POST", id |-> 0, name |-> nf[1], file |-> nf[2],
      desc |-> Null, faults |-> {}] :
        nf \in bodies}

putInputs(ip, ids, bodies) ==
    {[ip |-> ip, method |-> "PUT", id |-> x, name |-> nf[1], file |-> nf[2],
      desc |-> Null, faults |-> {}] :
        x \in ids, nf \in bodies}

deleteInputs(ip, ids) ==
    {[ip |-> ip, method |-> "DELETE", id |-> x, name |-> Null, file |-> NoFile,
      desc |-> Null, faults |-> {}] :
        x \in ids}

\* The same requests, sent with an x-operation-desc header.
described(inputs, descs) == {[in EXCEPT !.desc = d] : in \in inputs, d \in descs}

\* The requests handled one at a time: every kind of body from IpA, one
\* create and one delete from IpB, and two with an operation description.
Inputs ==
    postInputs(IpA, {<<ShortName, NoFile>>, <<ShortName, SmallFile>>,
                     <<ShortName, BigFile>>, <<LongName, NoFile>>,
                     <<Null, SmallFile>>, <<ShortName, HugeFile>>})
    \cup putInputs(IpA, knownIds \cup {UnknownId},
                   {<<OtherName, NoFile>>, <<Null, SmallFile>>,
                    <<LongName, BigFile>>})
    \cup deleteInputs(IpA, knownIds \cup {UnknownId})
    \cup postInputs(IpB, {<<ShortName, NoFile>>})
    \cup deleteInputs(IpB, {UnknownId})
    \cup described(deleteInputs(IpA, {UnknownId}), {GoodDesc, BadDesc})

\* The requests handled concurrently: the valid ones on the records there are.
RaceInputs ==
    postInputs(IpA, {<<ShortName, NoFile>>, <<ShortName, SmallFile>>})
    \cup putInputs(IpA, knownIds, {<<OtherName, NoFile>>, <<Null, SmallFile>>})
    \cup deleteInputs(IpA, knownIds)
    \cup postInputs(IpB, {<<ShortName, NoFile>>})

Next ==
    \/ \E r \in DOMAIN req : \E in \in RaceInputs : operationRateLimiter(r, in, FALSE)
    \/ \E r \in DOMAIN req : writeIpOperations(r)
    \/ \E r \in DOMAIN req : logOperation(r)
    \/ \E r \in DOMAIN req : writeOperationLog(r)
    \/ \E r \in DOMAIN req : upload(r)
    \/ \E r \in DOMAIN req : unlink(r)
    \/ \E r \in DOMAIN req : saveData(r)
    \/ Tick

Spec == Init /\ [][Next]_vars

\* Requests handled one at a time, and restarts of the process in between.
NextSeq ==
    \/ \E r \in DOMAIN req : \E in \in Inputs : operationRateLimiter(r, in, TRUE)
    \/ \E r \in DOMAIN req : writeIpOperations(r)
    \/ \E r \in DOMAIN req : logOperation(r)
    \/ \E r \in DOMAIN req : writeOperationLog(r)
    \/ \E r \in DOMAIN req : upload(r)
    \/ \E r \in DOMAIN req : unlink(r)
    \/ \E r \in DOMAIN req : saveData(r)
    \/ initData
    \/ Tick

SpecSeq == Init /\ [][NextSeq]_vars

\* The same requests, handled while the file operations of `faultSets` fail.
faulty(inputs, faultSets) ==
    {[in EXCEPT !.faults = f] : in \in inputs, f \in faultSets}

\* The requests handled one at a time while file operations fail: a create
\* with no failure, with each single failure and with the rate-limit file
\* neither readable nor writable; an update and a delete whose write of
\* data.json fails; a delete whose read of the operation log fails.
FailInputs ==
    faulty(postInputs(IpA, {<<ShortName, NoFile>>}),
           {{}} \cup {{f} : f \in Faults} \cup {{"readIp", "writeIp"}})
    \cup faulty(putInputs(IpA, knownIds, {<<OtherName, NoFile>>}),
                {{"writeData"}})
    \cup faulty(deleteInputs(IpA, knownIds \cup {UnknownId}),
                {{"writeData"}, {"readLog"}})

NextFail ==
    \/ \E r \in DOMAIN req : \E in \in FailInputs : operationRateLimiter(r, in, TRUE)
    \/ \E r \in DOMAIN req : writeIpOperations(r)
    \/ \E r \in DOMAIN req : logOperation(r)
    \/ \E r \in DOMAIN req : writeOperationLog(r)
    \/ \E r \in DOMAIN req : upload(r)
    \/ \E r \in DOMAIN req : unlink(r)
    \/ \E r \in DOMAIN req : saveData(r)
    \/ initData
    \/ Tick

SpecFail == Init /\ [][NextFail]_vars

----------------------------------------------------------------------------
\* The list specification: GET /api/birds on stores of up to MaxBirds records.

PageChars == {"-", "0", "1", "2", "3", "a"}

strings(chars, n) == UNION {[1..k -> chars] : k \in 0..n}

PageQueries == strings(PageChars, MaxPageLen) \cup {Undefined}

SearchQueries == strings({"a", "B"}, 2)

NamePool == << <<"A", "b">>, <<"b", "a", "B">>, <<"B">> >>

\* A store of n records, newest first, whose names repeat with period m.
storeOf(n, m) ==
    [i \in 1..n |->
        [id |-> T0 - i, name |-> NamePool[(i % m) + 1], imageUrl |-> Null]]

InitList ==
    /\ now = T0
    /\ preload = 0
    /\ ipFile = <<>>
    /\ logFile = <<>>
    /\ \E n \in 0..MaxBirds : \E m \in 1..Len(NamePool) : birds = storeOf(n, m)
    /\ dataFile = stringifyBirds(birds)
    /\ images = {}
    /\ req = [r \in 1..MaxReq |-> NewReq]
    /\ ticks = 0
    /\ listResp = <<>>
    /\ apiCache = [url \in SwUrls |-> NoResponse]
    /\ origin = 0
    /\ gets = <<>>

\* A client's GET /api/birds?page=...&search=...
getBirds(pageQuery, search) ==
    /\ listResp = <<>>
    /\ listResp' = [page |-> pageQuery, search |-> search,
                    body |-> listBirds(birds, pageQuery, search)]
    /\ UNCHANGED <<now, birds, dataFile, images, ipFile, logFile, req, preload, ticks,
                   apiCache, origin, gets>>

NextList == \E p \in PageQueries : \E s \in SearchQueries : getBirds(p, s)

SpecList == InitList /\ [][NextList]_vars

\* The service worker specification: GETs under /api, the network and the
\* cache, while the server handles no mutating request.
InitSw == Init /\ preload = 0

NextSw ==
    \/ \E url \in SwUrls : fetchWithCache(url)
    \/ \E n \in DOMAIN gets : \E status \in SwStatuses : networkResponds(n, status)
    \/ \E n \in DOMAIN gets : networkFails(n)
    \/ \E n \in DOMAIN gets : cachePut(n)
    \/ originChanges

SpecSw == InitSw /\ [][NextSw]_vars

----------------------------------------------------------------------------
\* The limiter's claims.

\* Whether request q has been let through by the limiter's check.
admitted(q) == req[q].pc # "new" /\ req[q].status # 429

\* How many operations of `ip` were admitted at an instant in (t - 24h, t],
\* request r left out: the earlier ones and those of the requests.
admittedWithin(ip, t, r) ==
    Cardinality({i \in 1..preload :
        /\ ip = IpA
        /\ preTime(i, preload) > t - DayMs
        /\ preTime(i, preload) <= t})
    + Cardinality({q \in DOMAIN req \ {r} :
        /\ admitted(q)
        /\ req[q].in.ip = ip
        /\ req[q].at > t - DayMs
        /\ req[q].at <= t})

\* C1: with requests handled one after another, a request is answered 429
\* exactly when 8 operations of its IP were admitted in the 24 hours before
\* it: the first 8 pass, the 9th is rejected, and another IP's count does not
\* matter.
C1_NinthRejected ==
    \A r \in DOMAIN req :
        req[r].pc # "new" =>
            (req[r].status = 429
                <=> admittedWithin(req[r].in.ip, req[r].at, r) >= MaxOps)

\* The 8th operation of IpA has passed and its 9th has been answered 429.
C1_Witness ==
    /\ preload = MaxOps - 1
    /\ req[1].in.ip = IpA /\ req[1].pc = "done" /\ req[1].status # 429
    /\ req[2].in.ip = IpA /\ req[2].status = 429
    /\ req[2].at < req[1].at + DayMs

\* C2: under every interleaving, at most 8 requests of one IP are admitted
\* within any 24 hours (the window ending at each admitted request is taken).
C2_AtMostEight ==
    \A r \in DOMAIN req :
        admitted(r) =>
            admittedWithin(req[r].in.ip, req[r].at, r) + 1 <= MaxOps

----------------------------------------------------------------------------
\* The record store's claims.

\* Request r writes the list in this step (after it, only saveData and the
\* answer, 201 or 200, are left).
writes(r) == req[r].pc # "save" /\ req'[r].pc = "save"

\* How many records of the list have this id.
countId(bs, id) == Cardinality({i \in 1..Len(bs) : bs[i].id = id})

\* C3: when a create puts its record in the store (it is then answered 201),
\* the id it returns is the id of no other record of the store, and
\* GET /api/birds/:id with it returns the record.
C3_CreatedIdUnique ==
    [][\A r \in DOMAIN req :
          (writes(r) /\ req'[r].in.method = "POST") =>
              /\ countId(birds', req'[r].body.id) = 1
              /\ getBird(birds', req'[r].body.id)
                    = [status |-> 200, bird |-> req'[r].body]]_vars

\* The list `new` is `old` without one record, which has this id.
removedOnly(old, new, id) ==
    \E i \in 1..Len(old) :
        /\ old[i].id = id
        /\ Len(new) = Len(old) - 1
        /\ \A j \in 1..Len(new) : new[j] = IF j < i THEN old[j] ELSE old[j + 1]

\* The list `new` is `old` with one record replaced, which has this id.
overwrittenOnly(old, new, id) ==
    \E i \in 1..Len(old) :
        /\ old[i].id = id
        /\ Len(new) = Len(old)
        /\ \A j \in 1..Len(new) : j # i => new[j] = old[j]

\* C4: under every interleaving, the step in which a DELETE of id X writes the
\* list removes the record with id X and no other, and the step in which a
\* PUT of id X writes the list replaces the record with id X and no other.
C4_WriteAtLookedUpRecord ==
    [][\A r \in DOMAIN req :
          writes(r) =>
              /\ req'[r].in.method = "DELETE" =>
                    removedOnly(birds, birds', req'[r].in.id)
              /\ req'[r].in.method = "PUT" =>
                    overwrittenOnly(birds, birds', req'[r].in.id)]_vars

\* C7: once a DELETE has been answered 200, the image the record referenced
\* is not in the image directory and GET /api/birds/:id answers 404.
C7_DeletedIsGone ==
    \A r \in DOMAIN req :
        (req[r].pc = "done" /\ req[r].in.method = "DELETE" /\ req[r].status = 200) =>
            /\ req[r].bird.imageUrl # Null => req[r].bird.imageUrl \notin images
            /\ getBird(birds, req[r].in.id).status = 404

\* C8: when a PUT that supplies an image writes the record (it is then
\* answered 200), the image the record had just before is not in the image
\* directory, the record has the name of the new file as imageUrl, and that
\* file is in the image directory.
C8_ImageReplaced ==
    [][\A r \in DOMAIN req :
          (writes(r) /\ req'[r].in.method = "PUT" /\ req'[r].in.file.present) =>
              LET before == getBird(birds, req'[r].in.id)
                  after == getBird(birds', req'[r].in.id)
              IN  /\ (before.status = 200 /\ before.bird.imageUrl # Null) =>
                        before.bird.imageUrl \notin images'
                  /\ after.status = 200
                  /\ after.bird.imageUrl = req'[r].file
                  /\ req'[r].file \in images']_vars

\* C9: when logOperation has written the log for a request, the log file holds
\* no entry that is more than 30 days older than the request's time.
C9_LogPruned ==
    [][\A r \in DOMAIN req :
          (req[r].pc = "logWrite" /\ req'[r].pc # "logWrite") =>
              \A i \in 1..Len(logFile') :
                  parseDate(logFile'[i].timestamp)
                      >= req[r].logAt - LogDays * DayMs]_vars

\* A request has logged 30 days after the newest earlier entry: the earlier
\* entries are gone from the log, the request's own entry is there.
C9_Witness ==
    /\ preload > 0
    /\ \E r \in DOMAIN req :
          /\ req[r].pc \in {"upload", "unlink", "save", "done"}
          /\ req[r].status # 429
          /\ logFile # <<>>
          /\ \A i \in 1..Len(logFile) : parseDate(logFile[i].timestamp) >= T0

\* No request is being handled.
idle == \A r \in DOMAIN req : req[r].pc \in {"new", "done", "hung"}

\* C10: with requests handled one at a time, whenever no request is being
\* handled, loading data.json (initData, a restart) yields the in-memory list:
\* the same records in the same order.
C10_RoundTrip == idle => parseBirds(dataFile) = birds

\* A create with an image, an update or a delete has been answered, and the
\* list differs from the one the process started with.
C10_Witness ==
    /\ idle
    /\ \E r \in DOMAIN req : req[r].status \in {200, 201}
    /\ \E i \in 1..Len(birds) : birds[i].imageUrl \notin {Null, oldBird.imageUrl}
    /\ dataFile # stringifyBirds(<<oldBird, olderBird>>)

----------------------------------------------------------------------------
\* The list's claims, stated without the operators of the handler.

\* The value of a decimal digit.
digitOf(c) ==
    CASE c = "0" -> 0 [] c = "1" -> 1 [] c = "2" -> 2 [] c = "3" -> 3
      [] c = "4" -> 4 [] c = "5" -> 5 [] c = "6" -> 6 [] c = "7" -> 7
      [] c = "8" -> 8 [] c = "9" -> 9

\* The string is a decimal numeral: digits and nothing else.
isNumeral(s) ==
    /\ s # <<>>
    /\ \A i \in 1..Len(s) :
          s[i] \in {"0", "1", "2", "3", "4", "5", "6", "7", "8", "9"}

\* The number a decimal numeral writes.
RECURSIVE numeralValue(_)
numeralValue(s) ==
    IF s = <<>>
    THEN 0
    ELSE numeralValue(SubSeq(s, 1, Len(s) - 1)) * 10 + digitOf(s[Len(s)])

\* Two characters are the same letter, whatever their case.
sameLetter(a, b) == a = b \/ {a, b} = {"a", "A"} \/ {a, b} = {"b", "B"}

\* The name contains the search string, case-insensitively.
nameContains(name, search) ==
    \E k \in 1..(Len(name) - Len(search) + 1) :
        \A j \in 1..Len(search) : sameLetter(name[k + j - 1], search[j])

\* The records of bs whose name contains the search string, in the order of
\* bs (all of them when the search string is empty).
RECURSIVE matching(_, _)
matching(bs, search) ==
    IF bs = <<>>
    THEN <<>>
    ELSE IF search = <<>> \/ nameContains(Head(bs).name, search)
    THEN <<Head(bs)>> \o matching(Tail(bs), search)
    ELSE matching(Tail(bs), search)

\* The elements of list at the 0-based positions [from, to).
positions(list, from, to) ==
    LET last == IF to < Len(list) THEN to ELSE Len(list)
    IN  [i \in 1..(IF last > from THEN last - from ELSE 0) |-> list[from + i]]

\* C5: for a page k >= 1 and any search string, GET /api/birds returns the
\* elements at positions [(k-1)*48, k*48) of the list of the records whose
\* name contains the search string case-insensitively, in the order of the
\* store, and hasMore is true exactly when that list has an element at
\* position k*48 or beyond.
C5_Pagination ==
    (listResp # <<>> /\ isNumeral(listResp.page)
        /\ numeralValue(listResp.page) >= 1) =>
        LET k == numeralValue(listResp.page)
            filtered == matching(birds, listResp.search)
        IN  /\ listResp.body.birds
                  = positions(filtered, (k - 1) * pageSize, k * pageSize)
            /\ listResp.body.hasMore <=> Len(filtered) > k * pageSize

\* Page 2 of a search that leaves some records out and fills page 1.
C5_Witness ==
    /\ listResp # <<>>
    /\ listResp.page = <<"2">>
    /\ listResp.search # <<>>
    /\ Len(matching(birds, listResp.search)) < Len(birds)
    /\ Len(listResp.body.birds) > 0
    /\ Len(listResp.body.birds) < pageSize
    /\ ~listResp.body.hasMore

\* The page queries that are zero, negative, absent or not a number.
NonPositivePages ==
    {Undefined, <<>>, <<"a">>, <<"0">>, <<"-", "0">>, <<"-", "1">>, <<"-", "2">>}

\* C6: a page that is zero, negative, absent or not a number gets the birds
\* and the hasMore of page 1 for the same search string.
C6_NonPositivePageIsFirst ==
    (listResp # <<>> /\ listResp.page \in NonPositivePages) =>
        LET filtered == matching(birds, listResp.search)
        IN  /\ listResp.body.birds = positions(filtered, 0, pageSize)
            /\ listResp.body.hasMore <=> Len(filtered) > pageSize

----------------------------------------------------------------------------
\* The claims on persistence, validation and the middleware chain.

\* C11: under every interleaving, once no request is being handled the
\* records file holds the text of the in-memory list (same records, same
\* order): no older snapshot of saveData has replaced a newer one.
C11_FileMirrorsList == idle => dataFile = stringifyBirds(birds)

\* C12: a POST the limiter has admitted is answered 400 exactly when the name
\* is missing or empty, the name is longer than 10 characters or the image is
\* larger than 1 MiB, and then the list and the records file are unchanged;
\* otherwise the list grows by exactly one record, placed first, and the
\* answer is 201.
C12_CreateValidation ==
    [][\A r \in DOMAIN req :
          /\ (req[r].pc = "upload" /\ req'[r].pc # "upload"
                /\ req[r].in.method = "POST") =>
                LET name == req[r].in.name
                    file == req[r].in.file
                    invalid == \/ name = <<>>
                               \/ Len(name) > MaxNameLen
                               \/ file.present /\ file.size > MaxImageBytes
                IN  IF invalid
                    THEN /\ req'[r].pc = "done" /\ req'[r].status = 400
                         /\ birds' = birds /\ dataFile' = dataFile
                    ELSE /\ req'[r].pc = "save"
                         /\ Len(birds') = Len(birds) + 1
                         /\ Tail(birds') = birds
                         /\ Head(birds').name = name
          /\ (req[r].pc = "save" /\ req'[r].pc = "done"
                /\ req[r].in.method = "POST") => req'[r].status = 201]_vars

\* C13: every record of the list has a name of at most 10 characters.
C13_NamesShort ==
    \A i \in 1..Len(birds) : ~IsHole(birds[i]) => Len(birds[i].name) <= MaxNameLen

\* C14: a PUT on a record of the list whose uploaded image is larger than
\* 1 MiB is answered 400, and the list and the record's image file are as they
\* were.
C14_UpdateImageLimit ==
    [][\A r \in DOMAIN req :
          (/\ req[r].pc = "upload" /\ req'[r].pc # "upload"
           /\ req[r].in.method = "PUT"
           /\ req[r].in.file.present /\ req[r].in.file.size > MaxImageBytes
           /\ getBird(birds, req[r].in.id).status = 200) =>
              LET old == getBird(birds, req[r].in.id).bird
              IN  /\ req'[r].pc = "done" /\ req'[r].status = 400
                  /\ birds' = birds
                  /\ old.imageUrl # Null => old.imageUrl \in images']_vars

\* C15: the step in which the limiter answers 429 leaves the rate-limit file,
\* the operation log, the list, the records file and the image directory as
\* they were, and nothing of the request runs after it.
C15_RejectionChangesNothing ==
    [][\A r \in DOMAIN req :
          /\ (req[r].pc = "new" /\ req'[r].status = 429) =>
                /\ req'[r].pc = "done"
                /\ ipFile' = ipFile /\ logFile' = logFile
                /\ birds' = birds /\ dataFile' = dataFile /\ images' = images
          /\ req[r].status = 429 => req'[r] = req[r]]_vars

\* The 9th operation of IpA has been answered 429 and the files are the ones
\* the 8 earlier operations left.
C15_Witness ==
    /\ preload = MaxOps
    /\ req[1].status = 429 /\ req[1].in.ip = IpA
    /\ ipFile = earlierOps(MaxOps) /\ logFile = earlierLogs(MaxOps)
    /\ dataFile = stringifyBirds(<<oldBird, olderBird>>)

\* The positions a request can be at after one step from a position.
following(pc) ==
    CASE pc = "new" -> {"limWrite", "done"}
      [] pc = "limWrite" -> {"logRead", "hung", "done"}
      [] pc = "logRead" -> {"logWrite"}
      [] pc = "logWrite" -> {"upload", "unlink", "save", "done"}
      [] pc = "upload" -> {"unlink", "save", "done"}
      [] pc = "unlink" -> {"save"}
      [] pc = "save" -> {"done"}
      [] OTHER -> {}

\* C16: a request goes through limiter, logger, handler and saveData in this
\* order, and its events happen at these steps only: its entry is written to
\* the rate-limit file when writeIpOperations completes, its entry is written
\* to the operation log when writeOperationLog completes, the list is written
\* after that (on entering saveData), and the answer of a successful request
\* is sent in the step in which the write of data.json completes.
C16_EventOrder ==
    [][\A r \in DOMAIN req :
          req'[r] # req[r] =>
              /\ req'[r].pc \in following(req[r].pc)
              /\ req[r].pc = "new" => req'[r].status = 429 \/ req'[r].pc = "limWrite"
              /\ ipFile' # ipFile => req[r].pc = "limWrite"
              /\ req[r].pc = "limWrite" =>
                    \E i \in 1..Len(ipFile') :
                        ipFile'[i] = opEntry(req[r].in, req[r].at)
              /\ logFile' # logFile => req[r].pc = "logWrite"
              /\ req[r].pc = "logWrite" =>
                    \E i \in 1..Len(logFile') :
                        logFile'[i] = logEntryOf(req[r].in, req[r].logAt)
              /\ birds' # birds =>
                    req[r].pc \in {"logWrite", "upload", "unlink"} /\ req'[r].pc = "save"
              /\ dataFile' # dataFile => req[r].pc = "save"
              /\ req'[r].status \in {200, 201} =>
                    /\ req[r].pc = "save"
                    /\ dataFile' = req[r].snapshot]_vars

\* A create has been answered 201: its entries are in the rate-limit file
\* and in the operation log, its record is first in the list and in data.json.
C16_Witness ==
    /\ req[1].pc = "done" /\ req[1].status = 201
    /\ \E i \in 1..Len(ipFile) : ipFile[i] = opEntry(req[1].in, req[1].at)
    /\ \E i \in 1..Len(logFile) : logFile[i] = logEntryOf(req[1].in, req[1].logAt)
    /\ birds # <<>> /\ Head(birds) = req[1].body
    /\ dataFile = stringifyBirds(birds)

\* Request r is being handled and no step of its handler chain can be taken.
blocked(r) ==
    /\ req[r].pc \notin {"new", "done"}
    /\ ~ENABLED (\/ writeIpOperations(r) \/ logOperation(r)
                 \/ writeOperationLog(r) \/ upload(r) \/ unlink(r)
                 \/ saveData(r))

\* C17: a request the limiter has admitted (with an upload multer accepts) is
\* never stopped in logOperation: it is not left without a step to take, and
\* once answered, it has been answered by its route's handler.
C17_LoggerNeverBlocks ==
    \A r \in DOMAIN req :
        (admitted(r) /\ req[r].in.file.size <= MaxUploadBytes) =>
            /\ ~blocked(r)
            /\ req[r].pc = "done" => req[r].body # ErrorPage

\* Request r has been answered after logOperation wrote the log for it.
logged(r) == req[r].pc = "done" /\ req[r].logAt # 0

\* How many entries of the operation log are equal to this one.
countEntry(entry) == Cardinality({i \in 1..Len(logFile) : logFile[i] = entry})

\* C18: under every interleaving, once no request is being handled the
\* operation log holds one entry for each request that ran logOperation in
\* the last 30 days, and every earlier entry of the last 30 days, unaltered.
C18_LogComplete ==
    idle =>
        /\ \A r \in DOMAIN req :
              (logged(r) /\ req[r].logAt > now - LogDays * DayMs) =>
                  countEntry(logEntryOf(req[r].in, req[r].logAt))
                      = Cardinality({q \in DOMAIN req :
                            /\ logged(q)
                            /\ logEntryOf(req[q].in, req[q].logAt)
                                   = logEntryOf(req[r].in, req[r].logAt)})
        /\ \A i \in 1..preload :
              preTime(i, preload) > now - LogDays * DayMs =>
                  countEntry(earlierLogs(preload)[i]) = 1

\* Request q is the first request of r's IP after r, and it comes resetTime
\* seconds after r or later.
retriesAfter(r, q) ==
    /\ q > r
    /\ req[q].pc # "new"
    /\ req[q].in.ip = req[r].in.ip
    /\ \A p \in (r + 1)..(q - 1) : req[p].in.ip # req[r].in.ip
    /\ req[q].at >= req[r].at + req[r].resetTime

\* C19: the resetTime of a 429 answer is ceil((windowStart + 24h - now)/1000)
\* seconds, windowStart being 24 hours before the request, and the first
\* request of the same IP made resetTime seconds after the rejection or later
\* is admitted.
C19_ResetTimeUsable ==
    \A r \in DOMAIN req :
        req[r].status = 429 =>
            LET windowStart == req[r].at - DayMs
            IN  /\ req[r].resetTime = windowStart + DayMs - req[r].at
                /\ \A q \in DOMAIN req :
                      retriesAfter(r, q) => req[q].status # 429

\* How many operations of r's IP were admitted before r, in the 24 hours up
\* to r: the earlier ones and those of the requests that came before it.
admittedBefore(r) ==
    Cardinality({i \in 1..preload :
        /\ req[r].in.ip = IpA
        /\ preTime(i, preload) > req[r].at - DayMs})
    + Cardinality({q \in 1..(r - 1) :
        /\ admitted(q)
        /\ req[q].in.ip = req[r].in.ip
        /\ req[q].at > req[r].at - DayMs})

\* Request q is the first request of r's IP after r, made while every
\* operation counted for r is still inside the 24-hour window.
nextInWindow(r, q) ==
    /\ q > r
    /\ req[q].pc # "new"
    /\ req[q].in.ip = req[r].in.ip
    /\ \A p \in (r + 1)..(q - 1) : req[p].in.ip # req[r].in.ip
    /\ admittedBefore(q) = admittedBefore(r) + 1

\* C20: with requests handled one after another, an admitted request carries
\* X-RateLimit-Limit 8 and X-RateLimit-Remaining = 8 minus the number of its
\* IP's operations in the 24 hours up to it, itself included; the value lies
\* in 0..7 and is 0 exactly when the IP's next request within the window is
\* answered 429.
C20_RemainingHeader ==
    \A r \in DOMAIN req :
        admitted(r) =>
            /\ req[r].limit = 8
            /\ req[r].remaining = 8 - (admittedBefore(r) + 1)
            /\ req[r].remaining \in 0..7
            /\ \A q \in DOMAIN req :
                  nextInWindow(r, q) =>
                      (req[r].remaining = 0 <=> req[q].status = 429)

\* The 8th operation of IpA was admitted with Remaining 0 and the next one
\* was answered 429.
C20_Witness ==
    /\ admitted(1) /\ req[1].pc = "done"
    /\ req[1].limit = 8 /\ req[1].remaining = 0
    /\ nextInWindow(1, 2) /\ req[2].status = 429

----------------------------------------------------------------------------
\* Failures of the file operations.

\* The step of request r at which the write of data.json returns.
saved(r) == req[r].pc = "save" /\ req'[r].pc = "done"

\* C21: when the write of data.json fails during a create, update or delete
\* handled alone, the file keeps the content it had and the list keeps the
\* mutation: it is the list that was stringified for the write, and a created
\* record is first in it and can be read by its id.
C21_FailedWriteKeepsMutation ==
    [][\A r \in DOMAIN req :
        (saved(r) /\ fails(req[r].in, "writeData")) =>
            /\ dataFile' = dataFile
            /\ birds' = birds
            /\ stringifyBirds(birds') = req[r].snapshot
            /\ req[r].in.method = "POST" =>
                    /\ birds'[1] = req[r].body
                    /\ getBird(birds', req[r].body.id).status = 200]_vars

\* A create whose write of data.json failed has been answered 201, its record
\* is first in the list, and the file does not hold it.
C21_Witness ==
    \E r \in DOMAIN req :
        /\ req[r].pc = "done" /\ req[r].status = 201
        /\ fails(req[r].in, "writeData")
        /\ birds # <<>> /\ birds[1] = req[r].body
        /\ findIndex(parseBirds(dataFile), req[r].body.id) = 0

\* The step at which request r is answered.
answers(r) == req[r].pc # "done" /\ req'[r].pc = "done"

\* A file operation has failed for request r by the step that answers it:
\* the read of ip_operations.json is its first operation, and the others
\* have been attempted once r has passed the step that awaits them.
failureOccurred(r) ==
    \/ fails(req'[r].in, "readIp")
    \/ fails(req'[r].in, "writeIp") /\ req[r].pc # "new"
    \/ fails(req'[r].in, "readLog")
            /\ req[r].pc \in {"logRead", "logWrite", "upload", "unlink", "save"}
    \/ fails(req'[r].in, "writeLog")
            /\ req[r].pc \in {"logWrite", "upload", "unlink", "save"}
    \/ fails(req'[r].in, "writeData") /\ req[r].pc = "save"

\* C22: a mutating request during which a file operation failed is answered
\* 500, never with a success status.
C22_FailureAnswered500 ==
    [][\A r \in DOMAIN req :
        (answers(r) /\ failureOccurred(r)) => req'[r].status = 500]_vars

----------------------------------------------------------------------------
\* Updates handled one at a time.

\* The record an update with input `in`, whose image was stored as
\* `filename`, makes of the record `old`.
putResult(old, in, filename) ==
    [id |-> old.id,
     name |-> IF in.name # <<>> THEN in.name ELSE old.name,
     imageUrl |-> IF in.file.present THEN filename ELSE old.imageUrl]

\* C23: a PUT handled alone writes the list once, at the position of the
\* record with its id, and the record it writes has the same id, the supplied
\* name (the old one when none is supplied) and the stored image (the old
\* imageUrl when none is supplied); every other record and the length of the
\* list are unchanged.  No other step of a PUT changes the list, and a PUT
\* answered 404 has changed neither the list nor data.json.
C23_UpdateChangesOnlyItsRecord ==
    [][\A r \in DOMAIN req :
        (req'[r] # req[r] /\ req'[r].in.method = "PUT") =>
            LET in == req'[r].in
                i == findIndex(birds, in.id)
            IN  /\ writes(r) =>
                    /\ i # 0
                    /\ birds' = [birds EXCEPT
                                    ![i] = putResult(birds[i], in, req'[r].file)]
                    /\ in.file.present => req'[r].file \in images'
                /\ ~writes(r) => birds' = birds
                /\ (answers(r) /\ req'[r].status = 404) =>
                    /\ i = 0
                    /\ birds' = birds /\ dataFile' = dataFile]_vars

\* A PUT with an image and no name has been answered 200: the record kept
\* its name and names the stored file, and the other record is as it was.
C23_Witness ==
    \E r \in DOMAIN req :
        /\ req[r].pc = "done" /\ req[r].status = 200
        /\ req[r].in.method = "PUT" /\ req[r].in.name = <<>>
        /\ req[r].in.file.present /\ req[r].in.id = oldBird.id
        /\ birds = <<[oldBird EXCEPT !.imageUrl = req[r].file], olderBird>>

----------------------------------------------------------------------------
\* The service worker's claim.

\* The fetch event of a GET has just been handled: it is the last of `gets`.
arrives == Len(gets') = Len(gets) + 1

\* C24: a GET under /api that has a cached response is answered with that
\* response in the step that handles its fetch event, and a background fetch
\* is then in flight; when the background fetch resolves, its response is put
\* into the cache as the entry of the URL (and no other entry changes), so
\* that the next GET of the URL is answered with it; when it rejects, the
\* cache is unchanged.
C24_StaleWhileRevalidate ==
    [][/\ (arrives /\ apiCache[gets'[Len(gets')].url] # NoResponse) =>
            LET get == gets'[Len(gets')]
            IN  /\ get.answer = apiCache[get.url]
                /\ get.background /\ get.pc = "fetch"
                /\ apiCache' = apiCache
       /\ \A n \in DOMAIN gets :
            (gets[n].background /\ gets'[n] # gets[n]) =>
                /\ gets'[n].answer = gets[n].answer
                /\ (gets[n].pc = "fetch" /\ gets'[n].pc = "put") =>
                        /\ gets'[n].fetched.version = origin
                        /\ apiCache' = apiCache
                /\ (gets[n].pc = "put") =>
                        /\ gets'[n].pc = "done"
                        /\ apiCache' = [apiCache EXCEPT
                                            ![gets[n].url] = gets[n].fetched]
                /\ (gets[n].pc = "fetch" /\ gets'[n].pc = "done") =>
                        apiCache' = apiCache]_vars

\* A GET was answered from the cache, its background fetch has put a newer
\* response that is not ok into the cache, and the next GET of the URL was
\* answered with that response.
C24_Witness ==
    \E n \in DOMAIN gets : \E m \in DOMAIN gets :
        /\ n < m /\ gets[n].url = gets[m].url
        /\ gets[n].background /\ gets[n].pc = "done"
        /\ gets[n].fetched # NoResponse /\ gets[n].fetched # gets[n].answer
        /\ ~ok(gets[n].fetched)
        /\ gets[m].answer = gets[n].fetched

----------------------------------------------------------------------------
\* The quota and the images.

\* Request q is the last one whose writeIpOperations has completed.
lastRecorded(q) ==
    /\ admitted(q) /\ req[q].pc # "limWrite"
    /\ \A p \in DOMAIN req : p > q => ~(admitted(p) /\ req[p].pc # "limWrite")

\* C25: with requests handled one after another, an admitted request that was
\* answered 400 or 404 is recorded in ip_operations.json as long as it is
\* inside the 24-hour window of the last recorded request, and it counts for
\* the next request of its IP within the window like any other: that one has
\* one unit less remaining, and is answered 429 when none remained.
C25_QuotaUsedWhateverAnswer ==
    \A r \in DOMAIN req :
        (req[r].pc = "done" /\ req[r].status \in {400, 404}) =>
            /\ admitted(r)
            /\ \A q \in DOMAIN req :
                  (lastRecorded(q) /\ req[r].at > req[q].at - DayMs) =>
                      \E i \in DOMAIN ipFile :
                          ipFile[i] = opEntry(req[r].in, req[r].at)
            /\ \A q \in DOMAIN req :
                  nextInWindow(r, q) =>
                      IF req[r].remaining = 0
                      THEN req[q].status = 429
                      ELSE admitted(q) /\ req[q].remaining = req[r].remaining - 1

\* The 8th operation of IpA was a create answered 400, and the next request
\* of IpA was answered 429.
C25_Witness ==
    /\ preload = MaxOps - 1
    /\ req[1].in.ip = IpA /\ req[1].pc = "done" /\ req[1].status = 400
    /\ req[2].in.ip = IpA /\ req[2].status = 429

\* The image files the records name.
referenced == {birds[i].imageUrl : i \in 1..Len(birds)} \ {Null}

\* C26: once no request is being handled, every file in the image directory
\* is named by the imageUrl of some record.
C26_NoOrphanImage == idle => images \subseteq referenced

\* C27: in every reachable state, every imageUrl that is not null names a
\* file of the image directory.
C27_ImageExists == referenced \subseteq images

----------------------------------------------------------------------------
\* Failures of the rate-limit file.

\* C28: a request whose read of ip_operations.json fails is admitted with
\* X-RateLimit-Limit 8 and X-RateLimit-Remaining 7 whatever the file holds,
\* and its write, when it succeeds, leaves the new entry alone in the file;
\* a request whose write of ip_operations.json fails goes on to the logger
\* and the file is unchanged.
C28_RateLimitFileFailures ==
    [][\A r \in DOMAIN req :
        LET in == req'[r].in
        IN  /\ (req[r].pc = "new" /\ req'[r].pc # "new" /\ fails(in, "readIp")) =>
                /\ req'[r].pc = "limWrite" /\ req'[r].status # 429
                /\ req'[r].limit = 8 /\ req'[r].remaining = 7
                /\ req'[r].ops = <<opEntry(in, now)>>
            /\ (req[r].pc = "limWrite" /\ req'[r].pc # "limWrite") =>
                /\ (fails(in, "readIp") /\ ~fails(in, "writeIp")) =>
                        ipFile' = <<opEntry(in, req[r].at)>>
                /\ fails(in, "writeIp") =>
                        /\ ipFile' = ipFile
                        /\ req'[r].pc = "logRead"]_vars

\* IpA had used its 8 operations; its next request, whose read of the file
\* failed, was answered 201 with Remaining 7, and the file holds that
\* request's entry only.
C28_Witness ==
    \E r \in DOMAIN req :
        /\ preload = MaxOps /\ req[r].at <= T0 + 1
        /\ req[r].in.ip = IpA /\ fails(req[r].in, "readIp")
        /\ req[r].pc = "done" /\ req[r].status = 201 /\ req[r].remaining = 7
        /\ ipFile = <<opEntry(req[r].in, req[r].at)>>

====
